---------------------------- MODULE Spec2Model ----------------------------
(***************************************************************************)
(* Model of crates/apollo_sierra_multicompile/src/command_line_compiler.rs *)
(* (target_family = "unix", feature "cairo_native" enabled).               *)
(*                                                                         *)
(* Each thread makes one call of CommandLineCompiler::compile or           *)
(* CommandLineCompiler::compile_to_native.  Both run compile_with_args,    *)
(* which serializes the contract class into a NamedTempFile, runs the      *)
(* compiler binary on it as a child process and turns the child's wait     *)
(* status into a result.  The file system, the children and the calls'     *)
(* local variables are the state; the calls of different threads           *)
(* interleave statement by statement.                                      *)
(***************************************************************************)
EXTENDS Integers, Sequences, FiniteSets

\* ------------------------------------------------------------- bounds
NumThreads == 2
MaxExitCode == 2
MaxSignal == 31
MaxStderrLen == 2

Threads == 1..NumThreads

\* Names NamedTempFile::new() can generate in the temp directory.
Paths == {"/tmp/.tmpA", "/tmp/.tmpB", "/tmp/.tmpC", "/tmp/.tmpD"}

\* The contract classes a caller can pass.
ContractClasses == {"classA", "classB"}

\* Bytes a child can write to its standard error: 'A', the two bytes of
\* U+00E9 (0xC3 0xA9), and 0xFF, which no UTF-8 text contains.
StderrBytes == {65, 169, 195, 255}

\* ------------------------------------------------------------ Option<T>
None == <<>>
Some(x) == <<x>>

\* --------------------------------------------------------- configuration
\* SierraCompilationConfig: the numeric fields the two operations read.
Configs ==
  { [max_casm_bytecode_size |-> 81, max_native_bytecode_size |-> 15,
     max_cpu_time |-> 20, max_memory_usage |-> 5, optimization_level |-> 2],
    [max_casm_bytecode_size |-> 7, max_native_bytecode_size |-> 300,
     max_cpu_time |-> 4, max_memory_usage |-> 60, optimization_level |-> 0] }

CAIRO_LANG_BINARY == "starknet-sierra-compile"
CAIRO_NATIVE_BINARY == "starknet-native-compile"

\* ----------------------------------------------------- integer -> text
Digit(d) ==
  CASE d = 0 -> "0" [] d = 1 -> "1" [] d = 2 -> "2" [] d = 3 -> "3"
    [] d = 4 -> "4" [] d = 5 -> "5" [] d = 6 -> "6" [] d = 7 -> "7"
    [] d = 8 -> "8" [] d = 9 -> "9"

\* i32/u64 Display (to_string, "{}"): the decimal digits, most significant
\* first, as a sequence of one-character strings.
RECURSIVE to_string(_)
to_string(n) ==
  IF n < 10 THEN <<Digit(n)>> ELSE to_string(n \div 10) \o <<Digit(n % 10)>>

\* ------------------------------------------------------ ResourceLimits
\* ResourceLimits::new(cpu_time, file_size, memory_size).
ResourceLimitsNew(cpu_time, file_size, memory_size) ==
  [cpu_time |-> cpu_time, file_size |-> file_size, memory_size |-> memory_size]

\* The limits of a Command on which ResourceLimits::apply has not run.
Unlimited == ResourceLimitsNew(None, None, None)

\* ---------------------------------------------------------- ExitStatus
\* How a child ends: exit(n), or death by signal n (with or without a core
\* dump).
Exited(n) == [how |-> "exit", n |-> n, core |-> FALSE]
Signaled(n, core) == [how |-> "signal", n |-> n, core |-> core]
NotEnded == [how |-> "none", n |-> 0, core |-> FALSE]

\* The wait status waitpid reports for an end: the exit code in bits 8-15,
\* or the signal in bits 0-6 and the core flag in bit 7.
WaitStatus(end) ==
  IF end.how = "exit" THEN end.n * 256
  ELSE end.n + (IF end.core THEN 128 ELSE 0)

\* Success, were every end without a signal a success.
SuccessIfNoSignal(status) == status % 128 = 0

\* ExitStatus::success: the status of exit(0).
Success(status) == status = 0

\* ExitStatusExt::signal: WIFSIGNALED, then WTERMSIG.
Signal(status) ==
  LET low == status % 128
  IN  IF low # 0 /\ low # 127 THEN Some(low) ELSE None

\* --------------------------------------------------- stderr -> String
IsCont(b) == b >= 128 /\ b <= 191

\* core::str::from_utf8 succeeds: the bytes are well-formed UTF-8.
RECURSIVE Utf8Valid(_)
Utf8Valid(bytes) ==
  IF bytes = <<>> THEN TRUE
  ELSE LET b == Head(bytes)
           n == Len(bytes)
           rest(k) == SubSeq(bytes, k + 1, n)
       IN  CASE b <= 127 -> Utf8Valid(rest(1))
             [] b >= 194 /\ b <= 223 ->
                  n >= 2 /\ IsCont(bytes[2]) /\ Utf8Valid(rest(2))
             [] b >= 224 /\ b <= 239 ->
                  /\ n >= 3
                  /\ IsCont(bytes[2]) /\ IsCont(bytes[3])
                  /\ (b = 224 => bytes[2] >= 160)
                  /\ (b = 237 => bytes[2] <= 159)
                  /\ Utf8Valid(rest(3))
             [] b >= 240 /\ b <= 244 ->
                  /\ n >= 4
                  /\ IsCont(bytes[2]) /\ IsCont(bytes[3]) /\ IsCont(bytes[4])
                  /\ (b = 240 => bytes[2] >= 144)
                  /\ (b = 244 => bytes[2] <= 143)
                  /\ Utf8Valid(rest(4))
             [] OTHER -> FALSE

\* "Failed to decode stderr output", as the bytes of the String.
FailedToDecode ==
  << 70, 97, 105, 108, 101, 100, 32, 116, 111, 32, 100, 101, 99, 111, 100,
     101, 32, 115, 116, 100, 101, 114, 114, 32, 111, 117, 116, 112, 117, 116 >>

\* StderrOutput, were standard error not captured.
StderrOutputNotCaptured(stderr) ==
  IF Utf8Valid(stderr) THEN <<>> ELSE FailedToDecode

\* String::from_utf8(compile_output.stderr).unwrap_or_else(..): a String is
\* its UTF-8 bytes, so a successful conversion keeps the bytes.
StderrOutput(stderr) ==
  IF Utf8Valid(stderr) THEN stderr ELSE FailedToDecode

\* ------------------------------------------------------------ diagnosis
SIGKILL_INFO ==
  <<"SIGKILL (9): Process was forcefully killed (for example, because it exceeded CPU limit).">>
SIGXFSZ_INFO == <<"SIGXFSZ (25): File size limit exceeded.">>
NO_SIGNAL_INFO ==
  <<"Process exited with non-zero status but no signal (likely a handled error, e.g., memory allocation failure).">>
UNEXPECTED_SIGNAL_PREFIX == "Process terminated by unexpected signal: "

\* SignalInfo, without the arm of signal 25.
SignalInfoWithoutXfsz(status) ==
  LET sig == Signal(status)
  IN  CASE sig = Some(9) -> SIGKILL_INFO
        [] sig = None -> NO_SIGNAL_INFO
        [] OTHER -> <<UNEXPECTED_SIGNAL_PREFIX>> \o to_string(sig[1])

\* The match on compile_output.status.signal(): the text, as a sequence of
\* string pieces (a fixed text is one piece, a formatted number one piece
\* per digit).
SignalInfo(status) ==
  LET sig == Signal(status)
  IN  CASE sig = Some(9) -> SIGKILL_INFO
        [] sig = Some(25) -> SIGXFSZ_INFO
        [] sig = None -> NO_SIGNAL_INFO
        [] OTHER -> <<UNEXPECTED_SIGNAL_PREFIX>> \o to_string(sig[1])

\* ----------------------------------------------------------------- files
\* A file's content: what kind of document it is (t) and of which contract
\* class (v).
NoPath == ""
Nothing == [t |-> "nofile", v |-> ""]
Empty == [t |-> "empty", v |-> ""]
Garbage == [t |-> "garbage", v |-> ""]

\* serde_json::to_string(&contract_class): the JSON document of the class.
SierraJson(cc) == [t |-> "sierra_json", v |-> cc]

\* What is on disk after a write_all that failed part of the way.
PartialJson(cc) == [t |-> "partial_json", v |-> cc]

\* What the compiler binaries make of the document they read.
CasmJson(doc) == [t |-> "casm_json", v |-> doc.v]
NativeLibrary(doc) == [t |-> "native_library", v |-> doc.v]

\* A directory entry: the content and the call that created the file
\* (0: a file no call created).
File(content, by) == [t |-> content.t, v |-> content.v, by |-> by]
NoFile == File(Nothing, 0)
Content(file) == [t |-> file.t, v |-> file.v]

\* write(2) on an open file: the content changes, the file stays the same.
WriteFile(files, path, content) ==
  [files EXCEPT ![path] = File(content, files[path].by)]

\* DropTempFile, were the file kept.
DropTempFileKeep(files, path) == files

\* Drop of a NamedTempFile: the file at its path is removed.
DropTempFile(files, path) ==
  IF path = NoPath THEN files ELSE [files EXCEPT ![path] = NoFile]

\* FreshPaths, were the file opened without O_EXCL.
FreshPathsWithoutExcl(files) == Paths

\* The open(O_CREAT | O_EXCL) of NamedTempFile::new(): the names it can
\* return are those of no existing file.
FreshPaths(files) == {p \in Paths : files[p] = NoFile}

\* ---------------------------------------------------------------- errors
NoResult ==
  [tag |-> "none", class |-> "", phase |-> "", status |-> -1,
   stderr |-> <<>>, signal_info |-> <<>>, artifact |-> Nothing]

Ok(artifact) == [NoResult EXCEPT !.tag = "Ok", !.artifact = artifact]

Err(class, phase) ==
  [NoResult EXCEPT !.tag = "Err", !.class = class, !.phase = phase]

\* The unwrap() of a None: the call does not return.
Panic(phase) == [NoResult EXCEPT !.tag = "panic", !.phase = phase]

\* CompilationUtilError::CompilationError(format!("Exit status: {}\nStderr:
\* {}\nSignal info: {}", status, stderr_output, signal_info)): the three
\* values the message is formatted from.
CompilationError(status, stderr_output, signal_info) ==
  [NoResult EXCEPT !.tag = "Err", !.class = "CompilationError",
     !.phase = "child", !.status = status, !.stderr = stderr_output,
     !.signal_info = signal_info]

\* The From conversions that `?` applies.
FromIoError == "IoError"
FromSerdeJsonError == "SerdeJsonError"
FromNativeError == "UnexpectedError"

\* ----------------------------------------------------------------- state
\* The local variables of a call: those of compile / compile_to_native
\* (compiler_binary_path, additional_args, resource_limits, output_file,
\* stdout) and those of compile_with_args (serialized_contract_class,
\* temp_file, command).
NoCommand == [program |-> "", args |-> <<>>, limits |-> Unlimited]

NoLocals ==
  [compiler_binary_path |-> "", additional_args |-> <<>>,
   resource_limits |-> Unlimited, output_file |-> NoPath,
   serialized_contract_class |-> Nothing, temp_file |-> NoPath,
   command |-> NoCommand, stdout |-> Empty]

\* A child process: what it was spawned with, what it read, how it ended.
NoChild ==
  [st |-> "none", program |-> "", argv |-> <<>>, limits |-> Unlimited,
   input |-> Nothing, payload |-> Nothing, end |-> NotEnded, status |-> -1,
   stdout |-> Empty, stderr |-> <<>>]

VARIABLES
  config,           \* self.config
  tmpdir_is_utf8,   \* whether Path::to_str succeeds on a temp file's path
  fs,               \* the temp directory: path -> file
  pc,               \* each call's position
  kind,             \* "casm" (compile) or "native" (compile_to_native)
  contract_class,   \* the call's argument
  locals,           \* the call's local variables
  child,            \* the child process of command.output()
  result,           \* what the call returned
  created,          \* history: the paths the call's temp files were created at
  tmp_created,      \* history: temp files compile_with_args created
  tmp_removed,      \* history: temp files compile_with_args removed
  spawned,          \* history: children compile_with_args spawned
  steps,            \* history: the steps of the call, in order
  met               \* history: the calls in progress when the call began

vars ==
  << config, tmpdir_is_utf8, fs, pc, kind, contract_class, locals, child,
     result, created, tmp_created, tmp_removed, spawned, steps, met >>

Init ==
  /\ config \in Configs
  /\ tmpdir_is_utf8 \in BOOLEAN
  /\ fs = [p \in Paths |-> NoFile]
  /\ pc = [t \in Threads |-> "idle"]
  /\ kind = [t \in Threads |-> "none"]
  /\ contract_class = [t \in Threads |-> ""]
  /\ locals = [t \in Threads |-> NoLocals]
  /\ child = [t \in Threads |-> NoChild]
  /\ result = [t \in Threads |-> NoResult]
  /\ created = [t \in Threads |-> {}]
  /\ tmp_created = [t \in Threads |-> 0]
  /\ tmp_removed = [t \in Threads |-> 0]
  /\ spawned = [t \in Threads |-> 0]
  /\ steps = [t \in Threads |-> <<>>]
  /\ met = [t \in Threads |-> {}]

\* ------------------------------------------------- going on and returning
Step(t, name) == steps' = [steps EXCEPT ![t] = Append(@, name)]

\* The call of thread t begins.
Begin(t, name) ==
  /\ steps' = [steps EXCEPT ![t] = <<name>>]
  /\ met' = [met EXCEPT ![t] = {u \in Threads : pc[u] \notin {"idle", "done"}}]

\* The call of thread t goes on at label with these locals.
Goto(t, label, new_locals) ==
  /\ pc' = [pc EXCEPT ![t] = label]
  /\ locals' = [locals EXCEPT ![t] = new_locals]
  /\ UNCHANGED result

\* DropLocalsOfCompileWithArgs, were temp_file persisted.
DropLocalsOfCompileWithArgsPersist(t, files) == files

\* compile_with_args returns: temp_file goes out of scope.
DropLocalsOfCompileWithArgs(t, files) ==
  DropTempFile(files, locals[t].temp_file)

\* compile_to_native returns (or unwinds): output_file goes out of scope.
DropLocalsOfCompileToNative(t, files) ==
  DropTempFile(files, locals[t].output_file)

\* The temp files compile_with_args has removed, after this return of it.
CountRemoved(t, files) ==
  [tmp_removed EXCEPT
     ![t] = IF locals[t].temp_file # NoPath
               /\ files[locals[t].temp_file] = NoFile
            THEN @ + 1 ELSE @]

\* The call of thread t ends with res; its locals are no more.
Return(t, res) ==
  /\ result' = [result EXCEPT ![t] = res]
  /\ pc' = [pc EXCEPT ![t] = "done"]
  /\ locals' = [locals EXCEPT ![t] = NoLocals]

\* An Err of compile_with_args leaves compile_with_args and, by the `?` of
\* its caller, the caller too.  files: the directory at the `?`.
ErrFromCompileWithArgs(t, files, res) ==
  /\ fs' = DropLocalsOfCompileToNative(t, DropLocalsOfCompileWithArgs(t, files))
  /\ tmp_removed' = CountRemoved(t, fs')
  /\ Return(t, res)

\* ------------------------------------------------------------- the calls
\* compile's additional_args.
BytecodeArgs(cfg) ==
  << <<"--add-pythonic-hints">>, <<"--max-bytecode-size">>,
     to_string(cfg.max_casm_bytecode_size),
     <<"--allowed-libfuncs-list-name">>, <<"all">> >>

\* BytecodeResourceLimits, were the bytecode size a file size limit.
BytecodeResourceLimitsWithSize(cfg) ==
  ResourceLimitsNew(None, Some(cfg.max_casm_bytecode_size), None)

\* compile's resource_limits.
BytecodeResourceLimits(cfg) == ResourceLimitsNew(None, None, None)

\* SierraToCasmCompiler::compile, up to the call of compile_with_args.
Compile(t) ==
  /\ pc[t] = "idle"
  /\ \E cc \in ContractClasses :
       contract_class' = [contract_class EXCEPT ![t] = cc]
  /\ kind' = [kind EXCEPT ![t] = "casm"]
  /\ Goto(t, "serialize",
          [NoLocals EXCEPT
             !.compiler_binary_path = CAIRO_LANG_BINARY,
             !.additional_args = BytecodeArgs(config),
             !.resource_limits = BytecodeResourceLimits(config)])
  /\ Begin(t, "compile")
  /\ UNCHANGED << config, tmpdir_is_utf8, fs, child, created, tmp_created,
                  tmp_removed, spawned >>

\* compile_to_native's additional_args.
NativeArgs(cfg, output_file_path) ==
  << <<output_file_path>>, <<"--opt-level">>,
     to_string(cfg.optimization_level) >>

\* NativeResourceLimits, with the size and the memory limit swapped.
NativeResourceLimitsSwapped(cfg) ==
  ResourceLimitsNew(Some(cfg.max_cpu_time),
                    Some(cfg.max_memory_usage),
                    Some(cfg.max_native_bytecode_size))

\* compile_to_native's resource_limits.
NativeResourceLimits(cfg) ==
  ResourceLimitsNew(Some(cfg.max_cpu_time),
                    Some(cfg.max_native_bytecode_size),
                    Some(cfg.max_memory_usage))

\* SierraToNativeCompiler::compile_to_native, up to the call of
\* compile_with_args.
CompileToNative(t) ==
  /\ pc[t] = "idle"
  /\ \E cc \in ContractClasses :
       contract_class' = [contract_class EXCEPT ![t] = cc]
  /\ kind' = [kind EXCEPT ![t] = "native"]
  /\ Begin(t, "compile_to_native")
  /\ \/ \* NamedTempFile::new() fails
        /\ Return(t, Err(FromIoError, "output_file"))
        /\ UNCHANGED << fs, created >>
     \/ \E p \in FreshPaths(fs) :
          /\ created' = [created EXCEPT ![t] = @ \cup {p}]
          /\ IF tmpdir_is_utf8
             THEN /\ fs' = [fs EXCEPT ![p] = File(Empty, t)]
                  /\ Goto(t, "serialize",
                          [NoLocals EXCEPT
                             !.compiler_binary_path = CAIRO_NATIVE_BINARY,
                             !.output_file = p,
                             !.additional_args = NativeArgs(config, p),
                             !.resource_limits = NativeResourceLimits(config)])
             ELSE \* output_file.path().to_str() is None
                  /\ fs' = DropTempFile([fs EXCEPT ![p] = File(Empty, t)], p)
                  /\ Return(t, Err("UnexpectedError", "output_file_path"))
  /\ UNCHANGED << config, tmpdir_is_utf8, child, tmp_created, tmp_removed,
                  spawned >>

\* ------------------------------------------------------ compile_with_args
\* let serialized_contract_class = serde_json::to_string(&contract_class)?;
Serialize(t) ==
  /\ pc[t] = "serialize"
  /\ Step(t, "serialize")
  /\ \/ /\ Goto(t, "temp_file",
                [locals[t] EXCEPT
                   !.serialized_contract_class = SierraJson(contract_class[t])])
        /\ UNCHANGED << fs, tmp_removed >>
     \/ ErrFromCompileWithArgs(t, fs, Err(FromSerdeJsonError, "serialize"))
  /\ UNCHANGED << config, tmpdir_is_utf8, met, kind, contract_class, child,
                  created, tmp_created, spawned >>

\* let mut temp_file = NamedTempFile::new()?;
CreateTempFile(t) ==
  /\ pc[t] = "temp_file"
  /\ Step(t, "temp_file")
  /\ \/ \E p \in FreshPaths(fs) :
          /\ fs' = [fs EXCEPT ![p] = File(Empty, t)]
          /\ created' = [created EXCEPT ![t] = @ \cup {p}]
          /\ tmp_created' = [tmp_created EXCEPT ![t] = @ + 1]
          /\ Goto(t, "write_all", [locals[t] EXCEPT !.temp_file = p])
          /\ UNCHANGED tmp_removed
     \/ /\ ErrFromCompileWithArgs(t, fs, Err(FromIoError, "temp_file"))
        /\ UNCHANGED << created, tmp_created >>
  /\ UNCHANGED << config, tmpdir_is_utf8, met, kind, contract_class, child,
                  spawned >>

\* temp_file.write_all(serialized_contract_class.as_bytes())?;
\* let temp_file_path = temp_file.path().to_str().ok_or(..)?;
WriteAll(t) ==
  /\ pc[t] = "write_all"
  /\ Step(t, "write_all")
  /\ LET written == WriteFile(fs, locals[t].temp_file,
                              locals[t].serialized_contract_class)
         cut == WriteFile(fs, locals[t].temp_file,
                          PartialJson(contract_class[t]))
     IN  \/ /\ tmpdir_is_utf8
            /\ fs' = written
            /\ Goto(t, "command", locals[t])
            /\ UNCHANGED tmp_removed
         \/ /\ ~tmpdir_is_utf8
            /\ ErrFromCompileWithArgs(
                 t, written, Err("UnexpectedError", "temp_file_path"))
         \/ \* write_all fails
            ErrFromCompileWithArgs(t, cut, Err(FromIoError, "write_all"))
  /\ UNCHANGED << config, tmpdir_is_utf8, met, kind, contract_class, child,
                  created, tmp_created, spawned >>

\* CommandArgs, with the path after the additional arguments.
CommandArgsPathLast(temp_file_path, args) == args \o << <<temp_file_path>> >>

\* command.arg(temp_file_path).args(additional_args)
CommandArgs(temp_file_path, args) == << <<temp_file_path>> >> \o args

\* let mut command = Command::new(compiler_binary_path.as_os_str());
\* command.arg(temp_file_path).args(additional_args);
NewCommand(t) ==
  /\ pc[t] = "command"
  /\ Step(t, "command")
  /\ Goto(t, "apply",
          [locals[t] EXCEPT
             !.command =
                [program |-> locals[t].compiler_binary_path,
                 args |-> CommandArgs(locals[t].temp_file,
                                      locals[t].additional_args),
                 limits |-> Unlimited]])
  /\ UNCHANGED << config, tmpdir_is_utf8, met, fs, kind, contract_class, child,
                  created, tmp_created, tmp_removed, spawned >>

\* resource_limits.apply(&mut command);
Apply(t) ==
  /\ pc[t] = "apply"
  /\ Step(t, "apply")
  /\ Goto(t, "output",
          [locals[t] EXCEPT !.command.limits = locals[t].resource_limits])
  /\ UNCHANGED << config, tmpdir_is_utf8, met, fs, kind, contract_class, child,
                  created, tmp_created, tmp_removed, spawned >>

\* command.output()?, first half: the child is spawned with the command's
\* program, arguments and limits, or the spawn fails.
Spawn(t) ==
  /\ pc[t] = "output"
  /\ Step(t, "spawn")
  /\ \/ /\ child' =
             [child EXCEPT
                ![t] = [NoChild EXCEPT !.st = "running",
                          !.program = locals[t].command.program,
                          !.argv = locals[t].command.args,
                          !.limits = locals[t].command.limits]]
        /\ spawned' = [spawned EXCEPT ![t] = @ + 1]
        /\ Goto(t, "wait", locals[t])
        /\ UNCHANGED << fs, tmp_removed >>
     \/ /\ ErrFromCompileWithArgs(t, fs, Err(FromIoError, "spawn"))
        /\ UNCHANGED << child, spawned >>
  /\ UNCHANGED << config, tmpdir_is_utf8, met, kind, contract_class, created,
                  tmp_created >>

\* ------------------------------------------------------------- the child
\* The compiler binaries are opaque: a child reads the file its first
\* argument names, produces its payload (on standard output, or for the
\* native compiler in the file its second argument names) or garbage, writes
\* to standard error and ends with any wait status.
CoreSignals == {3, 4, 6, 8, 11}

Ends ==
  {Exited(c) : c \in 0..MaxExitCode}
    \cup {Signaled(s, FALSE) : s \in 1..MaxSignal}
    \cup {Signaled(s, TRUE) : s \in CoreSignals \cap (1..MaxSignal)}

RECURSIVE SeqsUpTo(_, _)
SeqsUpTo(S, n) ==
  IF n = 0 THEN {<<>>}
  ELSE LET shorter == SeqsUpTo(S, n - 1)
       IN  shorter \cup {Append(q, b) : q \in shorter, b \in S}

StderrTexts == SeqsUpTo(StderrBytes, MaxStderrLen)

\* The outcomes the calls that run side by side are checked with.
FewEnds == {Exited(0), Exited(1), Signaled(9, FALSE)}
FewStderrTexts == {<<65>>}

\* open and read: the content of the file of that name, if there is one.
ReadFile(files, path) ==
  IF path \in Paths THEN Content(files[path]) ELSE Nothing

ChildRead(t) ==
  /\ child[t].st = "running"
  /\ child' =
       [child EXCEPT ![t].st = "read",
                     ![t].input = ReadFile(fs, child[t].argv[1][1])]
  /\ UNCHANGED << config, tmpdir_is_utf8, met, fs, pc, kind, contract_class,
                  locals, result, created, tmp_created, tmp_removed, spawned,
                  steps >>

Payloads(c) ==
  IF c.program = CAIRO_NATIVE_BINARY
  THEN (IF c.input.t = "sierra_json" THEN {NativeLibrary(c.input)} ELSE {})
         \cup {Garbage, Nothing}
  ELSE (IF c.input.t = "sierra_json" THEN {CasmJson(c.input)} ELSE {})
         \cup {Garbage}

\* The native compiler writes the file its second argument names.
ChildWrite(files, path, content) ==
  IF path \notin Paths THEN files
  ELSE IF files[path] = NoFile
       THEN [files EXCEPT ![path] = File(content, 0)]
       ELSE WriteFile(files, path, content)

ChildExit(t, ends, texts) ==
  /\ child[t].st = "read"
  /\ \E end \in ends, text \in texts, payload \in Payloads(child[t]) :
       /\ child' =
            [child EXCEPT
               ![t].st = "exited",
               ![t].end = end,
               ![t].status = WaitStatus(end),
               ![t].stderr = text,
               ![t].payload = payload,
               ![t].stdout = IF child[t].program = CAIRO_NATIVE_BINARY
                             THEN Empty ELSE payload]
       /\ fs' = IF child[t].program = CAIRO_NATIVE_BINARY /\ payload # Nothing
                THEN ChildWrite(fs, child[t].argv[2][1], payload)
                ELSE fs
  /\ UNCHANGED << config, tmpdir_is_utf8, met, pc, kind, contract_class, locals,
                  result, created, tmp_created, tmp_removed, spawned, steps >>

\* -------------------------------------------- compile_with_args, the end
\* The child is reaped: how it ended and what it wrote stay on record.
Reaped(c) ==
  [NoChild EXCEPT !.st = "reaped", !.end = c.end, !.status = c.status,
                  !.stderr = c.stderr, !.payload = c.payload]

\* command.output()?, second half, and the classification of the status.
Wait(t) ==
  /\ pc[t] = "wait"
  /\ child[t].st = "exited"
  /\ Step(t, "wait")
  /\ child' = [child EXCEPT ![t] = Reaped(@)]
  /\ IF ~Success(child[t].status)
     THEN ErrFromCompileWithArgs(
            t, fs,
            CompilationError(child[t].status,
                             StderrOutput(child[t].stderr),
                             SignalInfo(child[t].status)))
     ELSE /\ fs' = DropLocalsOfCompileWithArgs(t, fs)
          /\ tmp_removed' = CountRemoved(t, fs')
          /\ Goto(t, IF kind[t] = "native" THEN "from_path" ELSE "from_slice",
                  [locals[t] EXCEPT
                     !.stdout = child[t].stdout,
                     !.serialized_contract_class = Nothing,
                     !.temp_file = NoPath,
                     !.command = NoCommand])
  /\ UNCHANGED << config, tmpdir_is_utf8, met, kind, contract_class, created,
                  tmp_created, spawned >>

\* ------------------------------------------------------ the calls, the end
CasmContractClass(doc) == [t |-> "CasmContractClass", v |-> doc.v]
AotContractExecutor(doc) == [t |-> "AotContractExecutor", v |-> doc.v]

\* Ok(serde_json::from_slice::<CasmContractClass>(&stdout)?)
FromSlice(t) ==
  /\ pc[t] = "from_slice"
  /\ Step(t, "from_slice")
  /\ IF locals[t].stdout.t = "casm_json"
     THEN Return(t, Ok(CasmContractClass(locals[t].stdout)))
     ELSE Return(t, Err(FromSerdeJsonError, "from_slice"))
  /\ UNCHANGED << config, tmpdir_is_utf8, met, fs, kind, contract_class, child,
                  created, tmp_created, tmp_removed, spawned >>

\* What AotContractExecutor::from_path(..)?.unwrap() makes of each of
\* from_path's answers.
LoadResult(answer, library) ==
  CASE answer = "Some" -> Ok(AotContractExecutor(library))
    [] answer = "None" -> Panic("unwrap")
    [] answer = "Err" -> Err(FromNativeError, "from_path")

\* from_path's answers for a file of this content: an executor only from a
\* native library; an error or no executor from any file.
FromPathAnswers(content) ==
  (IF content.t = "native_library" THEN {"Some"} ELSE {}) \cup {"None", "Err"}

\* Ok(AotContractExecutor::from_path(Path::new(&output_file_path))?.unwrap())
FromPath(t) ==
  /\ pc[t] = "from_path"
  /\ Step(t, "from_path")
  /\ LET library == Content(fs[locals[t].output_file])
     IN  \E answer \in FromPathAnswers(library) :
           Return(t, LoadResult(answer, library))
  /\ fs' = DropLocalsOfCompileToNative(t, fs)
  /\ UNCHANGED << config, tmpdir_is_utf8, met, kind, contract_class, child,
                  created, tmp_created, tmp_removed, spawned >>

\* --------------------------------------------------------- specifications
\* Calls of all threads side by side.
Next ==
  \E t \in Threads :
    \/ Compile(t)
    \/ CompileToNative(t)
    \/ Serialize(t)
    \/ CreateTempFile(t)
    \/ WriteAll(t)
    \/ NewCommand(t)
    \/ Apply(t)
    \/ Spawn(t)
    \/ ChildRead(t)
    \/ ChildExit(t, FewEnds, FewStderrTexts)
    \/ Wait(t)
    \/ FromSlice(t)
    \/ FromPath(t)

Spec == Init /\ [][Next]_vars

\* One call, with every end and standard-error text of the bounds.
NextOne ==
  \/ Compile(1)
  \/ CompileToNative(1)
  \/ Serialize(1)
  \/ CreateTempFile(1)
  \/ WriteAll(1)
  \/ NewCommand(1)
  \/ Apply(1)
  \/ Spawn(1)
  \/ ChildRead(1)
  \/ ChildExit(1, Ends, StderrTexts)
  \/ Wait(1)
  \/ FromSlice(1)
  \/ FromPath(1)

SpecOne == Init /\ [][NextOne]_vars

\* ================================================================= claims
DigitValue(ch) ==
  CASE ch = "0" -> 0 [] ch = "1" -> 1 [] ch = "2" -> 2 [] ch = "3" -> 3
    [] ch = "4" -> 4 [] ch = "5" -> 5 [] ch = "6" -> 6 [] ch = "7" -> 7
    [] ch = "8" -> 8 [] ch = "9" -> 9

\* The number a sequence of decimal digits denotes.
RECURSIVE ParseDecimal(_)
ParseDecimal(digits) ==
  IF digits = <<>> THEN 0
  ELSE 10 * ParseDecimal(SubSeq(digits, 1, Len(digits) - 1))
         + DigitValue(digits[Len(digits)])

\* The call is inside compile_with_args.
InExecutor(t) ==
  pc[t] \in {"serialize", "temp_file", "write_all", "command", "apply",
             "output", "wait"}

\* The call has entered compile_with_args.
EnteredExecutor(t) ==
  \E i \in 1..Len(steps[t]) : steps[t][i] = "serialize"

\* The child of the call has ended, not with exit(0), and the call is over.
ChildFailed(t) ==
  /\ pc[t] = "done"
  /\ child[t].st = "reaped"
  /\ child[t].end # Exited(0)

\* The child of the call is alive, or dead and not yet waited for.
ChildAround(t) == child[t].st \in {"running", "read", "exited"}

\* ------------------------------------------------------------------- C1
\* The diagnoses a text is.
DiagnosesOf(info) ==
  {k \in {"kill", "file size", "handled", "unexpected"} :
     \/ k = "kill" /\ info = SIGKILL_INFO
     \/ k = "file size" /\ info = SIGXFSZ_INFO
     \/ k = "handled" /\ info = NO_SIGNAL_INFO
     \/ k = "unexpected" /\ Len(info) >= 2
          /\ info[1] = UNEXPECTED_SIGNAL_PREFIX}

\* The diagnosis of an end.
DiagnosisFor(end) ==
  CASE end.how = "signal" /\ end.n = 9 -> "kill"
    [] end.how = "signal" /\ end.n = 25 -> "file size"
    [] end.how = "exit" -> "handled"
    [] OTHER -> "unexpected"

\* C1: for every end of the child that is not a success, the diagnosis in
\* the error is the one of the delivered signal: signal 9 the kill
\* diagnosis, signal 25 the file-size diagnosis, no signal (a non-zero exit
\* code) the handled-failure diagnosis, any other signal s the
\* unexpected-termination diagnosis followed by s in decimal; the text is
\* exactly one of the four.
C1_DiagnosisBySignal ==
  \A t \in Threads :
    ChildFailed(t) =>
      LET end == child[t].end
          info == result[t].signal_info
      IN  /\ result[t].tag = "Err"
          /\ DiagnosesOf(info) = {DiagnosisFor(end)}
          /\ DiagnosisFor(end) = "unexpected" =>
               ParseDecimal(Tail(info)) = end.n

C1_Witness ==
  \E t \in Threads :
    /\ ChildFailed(t)
    /\ child[t].end.how = "signal"
    /\ child[t].end.n \notin {9, 25}
    /\ child[t].end.n >= 10
    /\ child[t].end.core
    /\ result[t].signal_info # <<>>

\* ------------------------------------------------------------------- C2
\* C2: a call returns an artifact only if its child ended with exit(0);
\* when the child ended with a non-zero exit code or by a signal, the call
\* returns a compilation error and no artifact, whatever the child wrote to
\* standard output or to the destination file.
C2_ArtifactOnlyAfterExitZero ==
  \A t \in Threads :
    /\ result[t].tag = "Ok" =>
         child[t].st = "reaped" /\ child[t].end = Exited(0)
    /\ ChildFailed(t) =>
         /\ result[t].tag = "Err"
         /\ result[t].class = "CompilationError"
         /\ result[t].artifact = Nothing

C2_Witness ==
  \E t \in Threads :
    /\ ChildFailed(t)
    /\ child[t].end.how = "exit"
    /\ child[t].payload.t \in {"casm_json", "native_library"}
    /\ result[t].tag = "Err"

\* ------------------------------------------------------------------- C3
\* C3: once a call has returned, with an artifact or with any error, no
\* file that the call created is on disk.
C3_NoTempFileAfterReturn ==
  \A t \in Threads :
    (pc[t] = "done" /\ result[t].tag \in {"Ok", "Err"}) =>
      \A p \in Paths : fs[p].by # t

C3_Witness ==
  \E t \in Threads :
    /\ pc[t] = "done"
    /\ kind[t] = "native"
    /\ result[t].tag = "Err"
    /\ result[t].phase = "from_path"
    /\ Cardinality(created[t]) = 2
    /\ tmp_removed[t] = 1

\* ------------------------------------------------------------------- C4
\* C4 as claimed: in compile the limits handed to compile_with_args have
\* the output-size field present and the CPU-time and memory fields absent.
C4_SizeLimitOnly ==
  \A t \in Threads :
    (kind[t] = "casm" /\ InExecutor(t)) =>
      /\ locals[t].resource_limits.file_size # None
      /\ locals[t].resource_limits.cpu_time = None
      /\ locals[t].resource_limits.memory_size = None

\* C4, amended: in compile the limits handed to compile_with_args have all
\* three fields absent, so has the child; the configured maximum bytecode
\* size is the value of the --max-bytecode-size argument.
C4_NoLimitsSizeAsArgument ==
  \A t \in Threads :
    (kind[t] = "casm" /\ InExecutor(t)) =>
      /\ locals[t].resource_limits.file_size = None
      /\ locals[t].resource_limits.cpu_time = None
      /\ locals[t].resource_limits.memory_size = None
      /\ locals[t].additional_args[2] = <<"--max-bytecode-size">>
      /\ ParseDecimal(locals[t].additional_args[3])
           = config.max_casm_bytecode_size
      /\ ChildAround(t) =>
           /\ child[t].limits.file_size = None
           /\ child[t].limits.cpu_time = None
           /\ child[t].limits.memory_size = None

C4_Witness ==
  \E t \in Threads :
    /\ kind[t] = "casm"
    /\ pc[t] = "wait"
    /\ child[t].st = "running"
    /\ config.max_casm_bytecode_size >= 10

HeldPaths(t) == {locals[t].temp_file, locals[t].output_file} \ {NoPath}

\* The paths the child of the call was given.
GivenPaths(t) ==
  IF ~ChildAround(t) THEN {}
  ELSE IF kind[t] = "native"
       THEN {child[t].argv[1][1], child[t].argv[2][1]}
       ELSE {child[t].argv[1][1]}

\* The result of a call is that of its own input and its own child.
OwnResult(t) ==
  /\ child[t].st \in {"read", "exited"} =>
       child[t].input = SierraJson(contract_class[t])
  /\ result[t].tag = "Ok" => result[t].artifact.v = contract_class[t]
  /\ result[t].phase = "child" => result[t].status = child[t].status

\* The calls of t and u ran side by side: one began while the other was in
\* progress.
Concurrent(t, u) == t # u /\ (u \in met[t] \/ t \in met[u])

\* C6 as claimed: the sets of paths that concurrent calls created temp
\* files at are disjoint, no child is given a path a concurrent call
\* created, and a call's result is that of its own input and child.
C6_CreatedPathsDisjoint ==
  \A t \in Threads :
    /\ \A u \in Threads :
         Concurrent(t, u) =>
           /\ created[t] \cap created[u] = {}
           /\ GivenPaths(t) \cap created[u] = {}
    /\ OwnResult(t)

\* C6, amended: the temp files that different calls hold at the same time
\* are at different paths, a child is given only paths of files that its
\* own call created and still holds, and a call's result is that of its own
\* input and child.
C6_HeldPathsDisjoint ==
  \A t \in Threads :
    /\ \A u \in Threads \ {t} :
         /\ HeldPaths(t) \cap HeldPaths(u) = {}
         /\ GivenPaths(t) \cap HeldPaths(u) = {}
    /\ GivenPaths(t) \subseteq HeldPaths(t)
    /\ \A p \in HeldPaths(t) : fs[p].by = t
    /\ OwnResult(t)

C6_Witness ==
  \E t \in Threads, u \in Threads :
    /\ Concurrent(t, u)
    /\ kind[t] = "native" /\ kind[u] = "native"
    /\ contract_class[t] # contract_class[u]
    /\ child[t].st = "exited" /\ child[u].st = "exited"
    /\ child[t].payload.t = "native_library"
    /\ child[u].payload.t = "native_library"
    /\ Cardinality(HeldPaths(t) \cup HeldPaths(u)) = 4

\* ------------------------------------------------------------------- C7
\* C7 as claimed: every call of compile_with_args creates and removes
\* exactly one temp file and spawns exactly one child, whatever its outcome.
C7_ExactlyOne ==
  \A t \in Threads :
    (pc[t] = "done" /\ EnteredExecutor(t)) =>
      tmp_created[t] = 1 /\ tmp_removed[t] = 1 /\ spawned[t] = 1

\* C7, amended: every call of compile_with_args creates at most one temp
\* file, has removed what it created when it is over, and spawns at most
\* one child; a call that spawned its child has created and removed exactly
\* one temp file and spawned exactly one child, whatever the child's end.
C7_AtMostOne ==
  \A t \in Threads :
    /\ tmp_created[t] <= 1
    /\ spawned[t] <= 1
    /\ tmp_removed[t] <= tmp_created[t]
    /\ spawned[t] <= tmp_created[t]
    /\ ~InExecutor(t) => tmp_removed[t] = tmp_created[t]

C7_Witness ==
  \E t \in Threads :
    /\ ChildFailed(t)
    /\ tmp_created[t] = 1 /\ tmp_removed[t] = 1 /\ spawned[t] = 1

\* ------------------------------------------------------------------- C8
\* C8: when the native compiler's child ended with exit(0) and no executor
\* is loaded from the destination path, compile_to_native returns an
\* UnexpectedError to its caller.
C8_LoadFailureIsReturned ==
  \A t \in Threads :
    (/\ pc[t] = "done"
     /\ kind[t] = "native"
     /\ child[t].st = "reaped"
     /\ child[t].end = Exited(0)
     /\ result[t].tag # "Ok") =>
      result[t].tag = "Err" /\ result[t].class = "UnexpectedError"

\* ------------------------------------------------------------------- C9
\* C9 as claimed: for every end of the child that is not a success the
\* error carries the raw status, a diagnosis, and a standard-error text
\* equal to the bytes the child wrote to standard error, whatever the bytes.
C9_StderrVerbatim ==
  \A t \in Threads :
    ChildFailed(t) =>
      /\ result[t].status = WaitStatus(child[t].end)
      /\ result[t].signal_info # <<>>
      /\ result[t].stderr = child[t].stderr

\* C9, amended: the error carries the raw status, a diagnosis, and a
\* standard-error text equal to the bytes the child wrote to standard error
\* when they are well-formed UTF-8, and "Failed to decode stderr output"
\* when they are not.
C9_StderrVerbatimIfUtf8 ==
  \A t \in Threads :
    ChildFailed(t) =>
      /\ result[t].status = WaitStatus(child[t].end)
      /\ result[t].signal_info # <<>>
      /\ Utf8Valid(child[t].stderr) => result[t].stderr = child[t].stderr
      /\ ~Utf8Valid(child[t].stderr) => result[t].stderr = FailedToDecode

C9_Witness ==
  \E t \in Threads :
    /\ ChildFailed(t)
    /\ child[t].stderr = <<195, 169>>
    /\ result[t].stderr = <<195, 169>>

\* ------------------------------------------------------------------ C10
\* The steps of compile_with_args, in the order of the code.
ExecutorSteps ==
  <<"serialize", "temp_file", "write_all", "command", "apply", "spawn",
    "wait">>

IsPrefix(a, b) == Len(a) <= Len(b) /\ a = SubSeq(b, 1, Len(a))

\* The steps the call has taken inside compile_with_args.
StepsInExecutor(t) ==
  IF Len(steps[t]) <= 1 THEN <<>>
  ELSE SubSeq(steps[t], 2,
              IF Len(steps[t]) > 8 THEN 8 ELSE Len(steps[t]))

\* C10: the child's arguments are the path of the input temp file, then the
\* operation's additional arguments in order; the steps are serialize,
\* create and write the input file, apply the limits, spawn, wait, in this
\* order; from the spawn until the child has been waited for the input file
\* exists and holds the whole serialized input, and in compile_to_native
\* the destination file exists and is another file.
C10_ChildGetsInputThenArgs ==
  \A t \in Threads :
    /\ IsPrefix(StepsInExecutor(t), ExecutorSteps)
    /\ ChildAround(t) =>
         /\ pc[t] = "wait"
         /\ child[t].program = locals[t].compiler_binary_path
         /\ child[t].argv[1] = <<locals[t].temp_file>>
         /\ SubSeq(child[t].argv, 2, Len(child[t].argv))
              = locals[t].additional_args
         /\ child[t].limits = locals[t].resource_limits
         /\ fs[locals[t].temp_file]
              = File(SierraJson(contract_class[t]), t)
         /\ kind[t] = "native" =>
              /\ locals[t].additional_args[1] = <<locals[t].output_file>>
              /\ locals[t].output_file # locals[t].temp_file
              /\ fs[locals[t].output_file].by = t

C10_Witness ==
  \E t \in Threads :
    /\ kind[t] = "native"
    /\ child[t].st = "exited"
    /\ child[t].payload.t = "native_library"
    /\ fs[locals[t].output_file].t = "native_library"
    /\ fs[locals[t].temp_file].t = "sierra_json"

=============================================================================
